---------------------------- MODULE Spec2Model ----------------------------
(***************************************************************************)
(* Decision engine of the smart-grid repository (src/decision_engine.py),  *)
(* with the alert mail (src/email_service.py) and the credential store     *)
(* (src/auth.py) of its dashboard.  Five specifications share the          *)
(* variables: Spec (a run of run_engine), SpecDetect (detect_pattern),     *)
(* SpecAgg (check_transformer_overload), SpecEmail (send_alert_email) and  *)
(* SpecAuth (the operations on the credential store).                      *)
(*                                                                         *)
(* Numbers.  The engine works on floats; the model uses exact arithmetic   *)
(* on scaled integers and on rationals <<num, den>> with den > 0:          *)
(*   voltage in V, current in A, power and rolling_avg_power in W          *)
(*   (0.001 kW, so the code's epsilon 0.001 is 1), risk_score in           *)
(*   hundredths (0.85 is 85), anomaly_score in thousandths.                *)
(* A standard deviation is kept as its square (the variance, a rational),  *)
(* or as NaN; comparisons of standard deviations are made on the squares.  *)
(* The values the inputs are drawn from are ones on which the float         *)
(* evaluation of the code's comparisons agrees with the exact one.          *)
(***************************************************************************)
EXTENDS Integers, Sequences, FiniteSets, TLC

VARIABLES
    pc,            \* position in run_engine / in the function under study
    data,          \* the readings at data_path (rows in timestamp order)
    has_tid,       \* whether the table has a transformer_id column
    model_src,     \* model_path: "none", "missing", "ok" or "corrupt"
    model,         \* run_engine's local `model`: "None" or "loaded"
    df,            \* the table being built (processed, then decisions)
    out_file,      \* what is stored at output_path: <<>> when nothing
    row,           \* detect_pattern's argument `row`
    grouped_stats, \* detect_pattern's argument: stats of row's meter
    result,        \* the return value of the function under study
    config,        \* what is at CONFIG_FILE (config.json)
    alert_data,    \* send_alert_email's argument `alert_data`
    msg,           \* send_alert_email's local `msg`, the message it built
    users,         \* what is at USERS_FILE (artifacts/users.json)
    call           \* the last call made on the credential store

vars == <<pc, data, has_tid, model_src, model, df, out_file,
          row, grouped_stats, result, config, alert_data, msg, users, call>>

\* the state of the dashboard's services, which the decision engine does
\* not touch
service_vars == <<config, alert_data, msg, users, call>>
ServicesUnused ==
    /\ config = <<>> /\ alert_data = <<>> /\ msg = <<>>
    /\ users = <<>> /\ call = <<>>

-----------------------------------------------------------------------------
(* Rationals and rounding *)

Rat(n, d) == <<n, d>>
RLt(a, b) == a[1] * b[2] < b[1] * a[2]
RMul(a, b) == <<a[1] * b[1], a[2] * b[2]>>
RSub(a, b) == <<a[1] * b[2] - b[1] * a[2], a[2] * b[2]>>
RSq(a) == RMul(a, a)
Max(a, b) == IF b > a THEN b ELSE a

\* numpy/format rounding of n/d (d > 0) to an integer, ties to even
RoundHalfEven(n, d) ==
    LET q == n \div d
        r == n - q * d
    IN  IF 2 * r < d THEN q
        ELSE IF 2 * r > d THEN q + 1
        ELSE IF q % 2 = 0 THEN q ELSE q + 1

\* f"{x:.1f}" of the rational x, as a number of tenths
Fmt1(x) == RoundHalfEven(10 * x[1], x[2])
\* f"{x:.0f}"
Fmt0(x) == RoundHalfEven(x[1], x[2])

-----------------------------------------------------------------------------
(* Thresholds and risk values of detect_pattern and the aggregator *)

VoltageDropPct == 85       \* 0.85
HighCurrentPct == 130      \* 1.3
ZLimit == 3                \* 3.0
Eps == 1                   \* 0.001 kW, in W
HalfPct == 50              \* 0.5
HighLoadPct == 120         \* 1.2
ThresholdPct == 70         \* threshold = 0.7
RiskElecFlagged == 90
RiskElec == 60
RiskSpikeFlagged == 70
RiskSpike == 40
RiskSuppressFlagged == 80
RiskSuppress == 50
RiskAnomaly == 50
RiskNormal == 0
RiskOverload == 85

Patterns == {"normal", "theft", "fault", "transformer_overload", "anomaly"}

-----------------------------------------------------------------------------
(* detect_pattern *)

NaNStd == [nan |-> TRUE, sq |-> Rat(0, 1)]
Std(sq) == [nan |-> FALSE, sq |-> sq]

\* `"c" in row` and row.get("c", default)
In(r, c) == c \in r.cols
RowGet(r, c, default) == IF In(r, c) THEN r[c] ELSE default

\* Python's max(std, 0.001): the second argument wins only when it is
\* greater, so a NaN first argument is returned as it is.
FloorStdNoFloor(std) == std
FloorStd(std) ==
    IF std.nan THEN std
    ELSE IF RLt(std.sq, Rat(Eps * Eps, 1)) THEN Std(Rat(Eps * Eps, 1))
    ELSE std

FloorRollingNoFloor(x) == x
FloorRolling(x) == Max(x, Eps)

Verdict(p, r, e) == [pattern |-> p, risk_score |-> r, explanation |-> e]
Expl(k, a) == [kind |-> k, args |-> a]
\* what a division by zero gives instead of a verdict
DivisionError == Verdict("ZeroDivisionError", 0, Expl("error", <<>>))

\* abs(z_score) > 3.0 with z_score = (power - power_mean) / denom,
\* compared on squares; a NaN denominator gives NaN, and NaN > 3.0 is false
AbsZExceeds(power, mean, denom) ==
    /\ ~denom.nan
    /\ RLt(RMul(Rat(ZLimit * ZLimit, 1), denom.sq), RSq(RSub(Rat(power, 1), mean)))

VoltageDrop(r, stats) ==
    RLt(Rat(r.voltage, 1), RMul(Rat(VoltageDropPct, 100), stats.voltage_mean))
HighCurrent(r, stats) ==
    RLt(RMul(Rat(HighCurrentPct, 100), stats.current_mean), Rat(r.current, 1))

Rule1(r, stats) ==
    /\ In(r, "voltage") /\ In(r, "current")
    /\ VoltageDrop(r, stats) /\ HighCurrent(r, stats)

Rule2(r, stats) ==
    /\ In(r, "power")
    /\ AbsZExceeds(r.power, stats.power_mean, FloorStd(stats.power_std))

Rule3(r) ==
    /\ In(r, "power") /\ In(r, "rolling_avg_power")
    /\ RLt(Rat(r.power, FloorRolling(r.rolling_avg_power)), Rat(HalfPct, 100))

IsAnomaly(r) == RowGet(r, "prediction", 1) = -1

Rule1Verdict(r, stats) ==
    Verdict("theft", IF IsAnomaly(r) THEN RiskElecFlagged ELSE RiskElec,
            Expl("Voltage drop", <<Fmt1(Rat(r.voltage, 1)), Fmt1(stats.voltage_mean),
                                   Fmt1(Rat(r.current, 1)), Fmt1(stats.current_mean)>>))
Rule2Verdict(r, stats) ==
    Verdict("fault", IF IsAnomaly(r) THEN RiskSpikeFlagged ELSE RiskSpike,
            Expl("Power spike detected", <<Fmt1(Rat(r.power, 1000))>>))
Rule3Verdict(r) ==
    Verdict("theft", IF IsAnomaly(r) THEN RiskSuppressFlagged ELSE RiskSuppress,
            Expl("Consumption", <<Fmt0(Rat(100 * r.power, FloorRolling(r.rolling_avg_power))),
                                  Fmt1(Rat(r.power, 1000)),
                                  Fmt1(Rat(r.rolling_avg_power, 1000))>>))
AnomalyVerdictAsNormal(r) == Verdict("normal", RiskNormal, Expl("Normal operation", <<>>))
AnomalyVerdict(r) ==
    Verdict("anomaly", RiskAnomaly,
            Expl("AI detected anomaly", <<RowGet(r, "anomaly_score", 0)>>))
NormalVerdict == Verdict("normal", RiskNormal, Expl("Normal operation", <<>>))

\* a zero denominator in rule 2's or rule 3's division
Rule2Raises(r, stats) ==
    /\ In(r, "power")
    /\ ~FloorStd(stats.power_std).nan
    /\ FloorStd(stats.power_std).sq[1] = 0
Rule3Raises(r) ==
    /\ In(r, "power") /\ In(r, "rolling_avg_power")
    /\ FloorRolling(r.rolling_avg_power) = 0

DetectPatternFaultFirst(r, stats) ==
    IF Rule2Raises(r, stats) THEN DivisionError
    ELSE IF Rule2(r, stats) THEN Rule2Verdict(r, stats)
    ELSE IF Rule1(r, stats) THEN Rule1Verdict(r, stats)
    ELSE IF Rule3Raises(r) THEN DivisionError
    ELSE IF Rule3(r) THEN Rule3Verdict(r)
    ELSE IF IsAnomaly(r) THEN AnomalyVerdict(r)
    ELSE NormalVerdict
DetectPattern(r, stats) ==
    IF Rule1(r, stats) THEN Rule1Verdict(r, stats)
    ELSE IF Rule2Raises(r, stats) THEN DivisionError
    ELSE IF Rule2(r, stats) THEN Rule2Verdict(r, stats)
    ELSE IF Rule3Raises(r) THEN DivisionError
    ELSE IF Rule3(r) THEN Rule3Verdict(r)
    ELSE IF IsAnomaly(r) THEN AnomalyVerdict(r)
    ELSE NormalVerdict

-----------------------------------------------------------------------------
(* Tables: sequences of rows.  Every row carries `index`, its label in the  *)
(* DataFrame index (its position in the processed table).                   *)

RECURSIVE SeqSum(_)
SeqSum(s) == IF s = <<>> THEN 0 ELSE Head(s) + SeqSum(Tail(s))

\* a missing value of a key column (meter_id, transformer_id)
NaN == "NaN"

Column(t, c) == [i \in 1..Len(t) |-> t[i][c]]
OfMeter(t, m) == SelectSeq(t, LAMBDA r : r.meter_id = m)

\* pandas' mean and std (ddof = 1) of a column of n >= 1 values: the std of
\* a single value is NaN
MeanOf(xs) == Rat(SeqSum(xs), Len(xs))
StdOf(xs) ==
    LET n == Len(xs)
        s == SeqSum(xs)
        ss == SeqSum([i \in 1..n |-> xs[i] * xs[i]])
    IN  IF n < 2 THEN NaNStd ELSE Std(Rat(n * ss - s * s, n * (n - 1)))

\* grouped_stats.loc[m]: the aggregate of the rows of meter m
GroupedStats(t, m) ==
    LET rows == OfMeter(t, m)
    IN  [voltage_mean |-> MeanOf(Column(rows, "voltage")),
         voltage_std |-> StdOf(Column(rows, "voltage")),
         current_mean |-> MeanOf(Column(rows, "current")),
         current_std |-> StdOf(Column(rows, "current")),
         power_mean |-> MeanOf(Column(rows, "power")),
         power_std |-> StdOf(Column(rows, "power"))]

\* the outlier model's verdict on a row: the label is the sign of the score
ScoreOf(prediction) == IF prediction = -1 THEN -50 ELSE 50

\* analyze_patterns without a model: df["prediction"] = 1, anomaly_score 0.0
DefaultPredictionFlagged == 0 - 1
DefaultPrediction == 1
DefaultScore == 0

\* analyze_patterns: the prediction and anomaly_score columns
WithPredictions(t, preds, scores) ==
    [i \in 1..Len(t) |->
        [cols |-> t[i].cols \cup {"prediction", "anomaly_score"},
         prediction |-> preds[i], anomaly_score |-> scores[i]] @@ t[i]]

\* the index of grouped_stats: groupby("meter_id") makes one row per
\* meter_id of the table and drops the rows whose meter_id is NaN
BaselineIndex(t) == {t[i].meter_id : i \in 1..Len(t)} \ {NaN}

\* grouped_stats.loc[meter_id] raises KeyError for a label not in the index
KeyError == Verdict("KeyError", 0, Expl("error", <<>>))
LookupFailsNever(t, m) == FALSE
LookupFails(t, m) == m \notin BaselineIndex(t)

\* analyze_patterns: the pattern, risk_score and explanation columns
WithPatterns(t) ==
    [i \in 1..Len(t) |->
        (IF LookupFails(t, t[i].meter_id) THEN KeyError
         ELSE DetectPattern(t[i], GroupedStats(t, t[i].meter_id))) @@ t[i]]

-----------------------------------------------------------------------------
(* check_transformer_overload *)

\* high_load: power > (mean power of the row's meter over the table) * 1.2
HighLoad(t, i) ==
    RLt(RMul(MeanOf(Column(OfMeter(t, t[i].meter_id), "power")), Rat(HighLoadPct, 100)),
        Rat(t[i].power, 1))

\* the rows of the (transformer_id, timestamp) group of row i; groupby drops
\* the rows whose key is NaN
GroupOfKeepNaN(t, i) ==
    {j \in 1..Len(t) : /\ t[j].transformer_id = t[i].transformer_id
                       /\ t[j].timestamp = t[i].timestamp}
GroupOf(t, i) ==
    IF t[i].transformer_id = NaN THEN {}
    ELSE {j \in 1..Len(t) : /\ t[j].transformer_id = t[i].transformer_id
                            /\ t[j].timestamp = t[i].timestamp}

\* overload_pct of row i (defined for a row that has a group)
OverloadPct(t, i) ==
    Rat(Cardinality({j \in GroupOf(t, i) : HighLoad(t, j)}), Cardinality(GroupOf(t, i)))

\* transformer_overload = overload_pct > threshold; NaN > threshold is false
ExceedsThresholdInclusive(pct) == ~RLt(pct, Rat(ThresholdPct, 100))
ExceedsThreshold(pct) == RLt(Rat(ThresholdPct, 100), pct)

TransformerOverload(t, i) ==
    /\ GroupOf(t, i) # {}
    /\ ExceedsThreshold(OverloadPct(t, i))

\* (overload_pct * 100).round(0), as the explanation shows it
OverloadVerdictUnscaled(pct) ==
    Verdict("transformer_overload", 100 * RiskOverload,
            Expl("Transformer overload", <<RoundHalfEven(100 * pct[1], pct[2])>>))
OverloadVerdict(pct) ==
    Verdict("transformer_overload", RiskOverload,
            Expl("Transformer overload", <<RoundHalfEven(100 * pct[1], pct[2])>>))

CheckTransformerOverloadAppending(t, tid_col) ==
    IF ~tid_col THEN t
    ELSE [i \in 1..Len(t) |->
            IF TransformerOverload(t, i)
            THEN [t[i] EXCEPT !.pattern = "transformer_overload",
                              !.risk_score = OverloadVerdict(OverloadPct(t, i)).risk_score,
                              !.explanation =
                                  Expl("Transformer overload",
                                       t[i].explanation.args
                                       \o OverloadVerdict(OverloadPct(t, i)).explanation.args)]
            ELSE t[i]]
CheckTransformerOverload(t, tid_col) ==
    IF ~tid_col THEN t
    ELSE [i \in 1..Len(t) |->
            IF TransformerOverload(t, i)
            THEN [t[i] EXCEPT !.pattern = "transformer_overload",
                              !.risk_score = OverloadVerdict(OverloadPct(t, i)).risk_score,
                              !.explanation = OverloadVerdict(OverloadPct(t, i)).explanation]
            ELSE t[i]]

-----------------------------------------------------------------------------
(* run_engine: the alert column and the sort *)

AlertOfTheftOnly(pattern) == pattern = "theft"
AlertOf(pattern) == pattern # "normal"

WithAlert(t) == [i \in 1..Len(t) |-> [alert |-> AlertOf(t[i].pattern)] @@ t[i]]

Range(s) == {s[i] : i \in 1..Len(s)}

RECURSIVE Perms(_)
Perms(S) ==
    IF S = {} THEN {<<>>}
    ELSE UNION {{<<x>> \o q : q \in Perms(S \ {x})} : x \in S}

\* sort_values("risk_score", ascending=False) with the default kind
\* ("quicksort"), which is not a stable sort: the result is some arrangement
\* of the rows with risk_score non-increasing, rows of equal risk_score in
\* an order the library does not fix.
RECURSIVE SortedArrangements(_)
SortedArrangements(S) ==
    IF S = {} THEN {<<>>}
    ELSE LET top == CHOOSE x \in {r.risk_score : r \in S} :
                        \A y \in {r.risk_score : r \in S} : y <= x
             first == {r \in S : r.risk_score = top}
         IN  {a \o b : a \in Perms(first), b \in SortedArrangements(S \ first)}

-----------------------------------------------------------------------------
(* detect_pattern as a function of its arguments: the row and the baseline  *)
(* statistics of its meter are drawn independently.                         *)

AllCols == {"voltage", "current", "power", "rolling_avg_power",
            "prediction", "anomaly_score"}
ColSets == {AllCols,
            AllCols \ {"voltage"},
            AllCols \ {"rolling_avg_power"},
            AllCols \ {"power"},
            AllCols \ {"prediction", "anomaly_score"}}

DetectRows ==
    { [cols |-> cs, voltage |-> v, current |-> c, power |-> p,
       rolling_avg_power |-> ra, prediction |-> pr, anomaly_score |-> ScoreOf(pr)] :
        cs \in ColSets, v \in {160, 170, 190, 230}, c \in {10, 13, 14},
        p \in {0, 1999, 2000, 5000, 5002, 5004, 8000, 8001, 9200},
        ra \in {0, 4000, 10000, 20000}, pr \in {1, -1} }

\* The statistics a meter holding the row can have: a NaN standard
\* deviation is that of a meter with this single reading, whose means are the
\* row's own values; a standard deviation of zero is that of a meter whose
\* readings all have the row's power.
StatsFor(r, vm, sd) ==
    IF sd.nan
    THEN [voltage_mean |-> Rat(r.voltage, 1), current_mean |-> Rat(r.current, 1),
          power_mean |-> Rat(r.power, 1), power_std |-> sd]
    ELSE [voltage_mean |-> Rat(vm, 1), current_mean |-> Rat(10, 1),
          power_mean |-> IF sd.sq[1] = 0 THEN Rat(r.power, 1) ELSE Rat(5000, 1),
          power_std |-> sd]

DetectStds == {NaNStd, Std(Rat(0, 1)), Std(Rat(1, 4)), Std(Rat(1000 * 1000, 1))}

NoRow == [cols |-> {}, voltage |-> 0, current |-> 0, power |-> 0,
          rolling_avg_power |-> 0, prediction |-> 1, anomaly_score |-> 0]
NoStats == [voltage_mean |-> Rat(0, 1), current_mean |-> Rat(0, 1),
            power_mean |-> Rat(0, 1), power_std |-> NaNStd]
NoVerdict == Verdict("", 0, Expl("", <<>>))

InitDetect ==
    /\ pc = "detect"
    /\ row \in DetectRows
    /\ \E vm \in {200, 230}, sd \in DetectStds : grouped_stats = StatsFor(row, vm, sd)
    /\ result = NoVerdict
    /\ data = <<>> /\ has_tid = FALSE /\ model_src = "none"
    /\ model = "None" /\ df = <<>> /\ out_file = <<>>
    /\ ServicesUnused

CallDetectPattern ==
    /\ pc = "detect"
    /\ result' = DetectPattern(row, grouped_stats)
    /\ pc' = "detected"
    /\ UNCHANGED <<service_vars, data, has_tid, model_src, model, df, out_file, row, grouped_stats>>

NextDetect == CallDetectPattern

SpecDetect == InitDetect /\ [][NextDetect]_vars

-----------------------------------------------------------------------------
(* The batches run_engine is started on.  load_data sorts the readings by   *)
(* timestamp and preprocess (not part of the sources) derives the feature   *)
(* columns; a batch is given as the processed rows, in timestamp order,     *)
(* one row per (meter_id, timestamp); a meter is attached to one            *)
(* transformer or to none.                                                  *)

MaxRows == 2
SpikeRows == 11

Meters == {"M1", "M2"}
Timestamps == {1, 2}
DataCols == {"voltage", "current", "power", "rolling_avg_power"}

Reading(m, ts, tid, v, c, p, ra) ==
    [cols |-> DataCols, meter_id |-> m, timestamp |-> ts, transformer_id |-> tid,
     voltage |-> v, current |-> c, power |-> p, rolling_avg_power |-> ra]

\* the values of a reading: ordinary, a voltage drop with a high current,
\* a power far below the rolling average, a high power
Profiles == {<<230, 10, 1, 0>>, <<160, 20, 1, 0>>, <<230, 10, 1, 4>>, <<230, 10, 5, 0>>}

Readings ==
    { Reading(m, ts, tid, x[1], x[2], x[3], x[4]) :
        m \in Meters, ts \in Timestamps, tid \in {NaN, "T1"}, x \in Profiles }

Indexed(t) == [i \in 1..Len(t) |-> [index |-> i] @@ t[i]]

SmallBatches ==
    { Indexed(t) : t \in
        { t \in UNION {[1..n -> Readings] : n \in 1..MaxRows} :
            \A i, j \in 1..Len(t) : i < j =>
                /\ t[i].timestamp <= t[j].timestamp
                /\ <<t[i].meter_id, t[i].timestamp>> # <<t[j].meter_id, t[j].timestamp>>
                /\ t[i].meter_id = t[j].meter_id => t[i].transformer_id = t[j].transformer_id } }

\* One meter with SpikeRows readings: three with a voltage drop and a high
\* current, three far below their rolling average, one power spike at the
\* end, the others ordinary.
SpikeBatch ==
    Indexed([i \in 1..SpikeRows |->
        IF i <= 3 THEN Reading("M1", i, NaN, 160, 20, 1, 0)
        ELSE IF i <= 6 THEN Reading("M1", i, NaN, 230, 10, 1, 4)
        ELSE IF i = SpikeRows THEN Reading("M1", i, NaN, 230, 10, 100, 0)
        ELSE Reading("M1", i, NaN, 230, 10, 1, 0)])

\* A reading whose meter_id cell is empty, after a reading of meter M1.
OrphanBatch ==
    Indexed(<< Reading("M1", 1, "T1", 230, 10, 1, 0),
               Reading(NaN, 2, "T1", 230, 10, 1, 0) >>)

\* what data_path holds when read_csv cannot read a table from it
Unreadable == <<>>

ModelSources == {"none", "missing", "ok", "corrupt"}

Init ==
    /\ pc = "start"
    /\ \/ /\ data \in SmallBatches
          /\ model_src \in ModelSources
          /\ has_tid \in BOOLEAN
          /\ \A i \in 1..Len(data) : ~has_tid => data[i].transformer_id = NaN
       \/ /\ data \in {SpikeBatch, OrphanBatch}
          /\ model_src = "none"
          /\ has_tid = TRUE
       \/ /\ data = Unreadable
          /\ model_src \in ModelSources
          /\ has_tid = TRUE
    /\ model = "None" /\ df = <<>> /\ out_file = <<>>
    /\ row = NoRow /\ grouped_stats = NoStats /\ result = NoVerdict
    /\ ServicesUnused

detect_vars == <<row, grouped_stats, result>>
inputs == <<data, has_tid, model_src>>

\* run_engine lines 98-99: load_data and preprocess; read_csv raises when
\* the file at data_path is missing or empty
LoadData ==
    /\ pc = "start"
    /\ IF data = Unreadable
       THEN df' = df /\ pc' = "error"
       ELSE df' = data /\ pc' = "processed"
    /\ UNCHANGED <<service_vars, inputs, model, out_file, detect_vars>>

\* run_engine lines 100-105: the model is loaded only when model_path is
\* given and exists; joblib.load of an unreadable artifact raises
PathGivenAndExistsNoTest(src) == src # "none"
PathGivenAndExists(src) == src \notin {"none", "missing"}

LoadModel ==
    /\ pc = "processed"
    /\ IF ~PathGivenAndExists(model_src)
       THEN model' = "None" /\ pc' = "model_ready"
       ELSE IF model_src = "ok"
       THEN model' = "loaded" /\ pc' = "model_ready"
       ELSE model' = model /\ pc' = "error"
    /\ UNCHANGED <<service_vars, inputs, df, out_file, detect_vars>>

\* analyze_patterns lines 71-78
Predict ==
    /\ pc = "model_ready"
    /\ IF model # "None"
       THEN \E preds \in [1..Len(df) -> {1, -1}] :
                df' = WithPredictions(df, preds,
                                      [i \in 1..Len(df) |-> ScoreOf(preds[i])])
       ELSE df' = WithPredictions(df, [i \in 1..Len(df) |-> DefaultPrediction],
                                      [i \in 1..Len(df) |-> DefaultScore])
    /\ pc' = "scored"
    /\ UNCHANGED <<service_vars, inputs, model, out_file, detect_vars>>

\* analyze_patterns lines 79-84
ClassifyWritingRows ==
    /\ pc = "scored"
    /\ LET t == WithPatterns(df)
           bad == {i \in 1..Len(t) :
                     t[i].pattern \in {DivisionError.pattern, KeyError.pattern}}
       IN  IF bad # {}
           THEN /\ df' = df /\ pc' = "error"
                /\ out_file' = SubSeq(t, 1, (CHOOSE i \in bad : \A j \in bad : i <= j) - 1)
           ELSE df' = t /\ pc' = "classified" /\ out_file' = t
    /\ UNCHANGED <<service_vars, inputs, model, detect_vars>>
Classify ==
    /\ pc = "scored"
    /\ LET t == WithPatterns(df)
       IN  IF \E i \in 1..Len(t) :
                 t[i].pattern \in {DivisionError.pattern, KeyError.pattern}
           THEN df' = df /\ pc' = "error"
           ELSE df' = t /\ pc' = "classified"
    /\ UNCHANGED <<service_vars, inputs, model, out_file, detect_vars>>

\* analyze_patterns line 85
Aggregate ==
    /\ pc = "classified"
    /\ df' = CheckTransformerOverload(df, has_tid)
    /\ pc' = "analyzed"
    /\ UNCHANGED <<service_vars, inputs, model, out_file, detect_vars>>

\* run_engine line 107
Alert ==
    /\ pc = "analyzed"
    /\ df' = WithAlert(df)
    /\ pc' = "alerted"
    /\ UNCHANGED <<service_vars, inputs, model, out_file, detect_vars>>

\* run_engine line 108
Sort ==
    /\ pc = "alerted"
    /\ df' \in SortedArrangements(Range(df))
    /\ pc' = "sorted"
    /\ UNCHANGED <<service_vars, inputs, model, out_file, detect_vars>>

\* run_engine lines 109-113; output_path is given or None
WriteAndReturn ==
    /\ pc = "sorted"
    /\ \E output_path \in {"None", "given"} :
         out_file' = IF output_path # "None" THEN df ELSE out_file
    /\ pc' = "returned"
    /\ UNCHANGED <<service_vars, inputs, model, df, detect_vars>>

Next ==
    \/ LoadData \/ LoadModel \/ Predict \/ Classify
    \/ Aggregate \/ Alert \/ Sort \/ WriteAndReturn

Spec == Init /\ [][Next]_vars

-----------------------------------------------------------------------------
(* check_transformer_overload as a function of its argument: decision       *)
(* tables with up to MaxGroup meters on one transformer and three           *)
(* timestamps.  The first k1 meters are at high load at timestamp 1, the    *)
(* first k2 (none or all) at timestamp 2, none at timestamp 3; the verdicts *)
(* the table arrives with run through PreVerdicts, starting at an offset.   *)

MaxGroup == 10

PreVerdicts ==
    << Verdict("theft", RiskElecFlagged, Expl("Voltage drop", <<1900, 2300, 140, 100>>)),
       NormalVerdict,
       Verdict("fault", RiskSpike, Expl("Power spike detected", <<92>>)),
       Verdict("anomaly", RiskAnomaly, Expl("AI detected anomaly", <<-50>>)),
       Verdict("theft", RiskSuppress, Expl("Consumption", <<25, 0, 0>>)),
       Verdict("transformer_overload", RiskOverload, Expl("Transformer overload", <<100>>)) >>

GroupTable(n, k1, k2, off) ==
    Indexed([i \in 1..(3 * n) |->
        LET m == ((i - 1) % n) + 1
            ts == ((i - 1) \div n) + 1
            p == IF (ts = 1 /\ m <= k1) \/ (ts = 2 /\ m <= k2)
                 THEN 30 ELSE 10
        IN  PreVerdicts[((i + off) % Len(PreVerdicts)) + 1]
            @@ [prediction |-> 1, anomaly_score |-> 0]
            @@ [Reading(m, ts, "T1", 230, 10, p, p) EXCEPT !.cols = AllCols]])

Offsets == {0, 1}

\* the table t with the transformer_id of meter m's rows missing (NaN)
Detached(t, m) ==
    [i \in 1..Len(t) |->
        IF t[i].meter_id = m THEN [t[i] EXCEPT !.transformer_id = NaN] ELSE t[i]]

InitAgg ==
    /\ pc = "table"
    /\ \E n \in 1..MaxGroup, off \in Offsets :
         \E k1 \in 0..n, k2 \in {0, n} :
            \/ data = GroupTable(n, k1, k2, off)
            \/ data = Detached(GroupTable(n, k1, k2, off), n)
    /\ has_tid \in BOOLEAN
    /\ df = data
    /\ model_src = "none" /\ model = "None" /\ out_file = <<>>
    /\ row = NoRow /\ grouped_stats = NoStats /\ result = NoVerdict
    /\ ServicesUnused

\* one call of check_transformer_overload on the table; it is called on the
\* input, then on its own output
ApplyAggregator ==
    /\ pc \in {"table", "once"}
    /\ df' = CheckTransformerOverload(df, has_tid)
    /\ pc' = IF pc = "table" THEN "once" ELSE "twice"
    /\ UNCHANGED <<service_vars, inputs, model, out_file, detect_vars>>

NextAgg == ApplyAggregator

SpecAgg == InitAgg /\ [][NextAgg]_vars

-----------------------------------------------------------------------------
(* The conditions of the rules as the specification states them, on scaled  *)
(* integers.                                                                *)

\* voltage < 0.85 x baseline mean voltage and current > 1.30 x baseline mean current
ElectricalSignature(r, st) ==
    /\ {"voltage", "current"} \subseteq r.cols
    /\ 100 * r.voltage * st.voltage_mean[2] < 85 * st.voltage_mean[1]
    /\ 100 * r.current * st.current_mean[2] > 130 * st.current_mean[1]

\* |(power - mean) / max(std, 0.001)| > 3.0
PowerSpike(r, st) ==
    /\ "power" \in r.cols
    /\ ~st.power_std.nan
    /\ LET var == st.power_std.sq
           floored == IF var[1] < var[2] THEN <<1, 1>> ELSE var
           d == r.power * st.power_mean[2] - st.power_mean[1]
       IN  d * d * floored[2] > 9 * st.power_mean[2] * st.power_mean[2] * floored[1]

\* power / max(rolling_avg_power, 0.001) < 0.5
Suppression(r) ==
    /\ {"power", "rolling_avg_power"} \subseteq r.cols
    /\ 2 * r.power < (IF r.rolling_avg_power < 1 THEN 1 ELSE r.rolling_avg_power)

Flagged(r) == "prediction" \in r.cols /\ r.prediction = -1

\* the share of the readings of row i's (transformer, timestamp) group whose
\* power exceeds 1.2 x their meter's mean power over the table t is above 0.7
PowerSum(t, m) == SeqSum([j \in 1..Len(t) |-> IF t[j].meter_id = m THEN t[j].power ELSE 0])
Count(t, m) == Cardinality({j \in 1..Len(t) : t[j].meter_id = m})
AtHighLoad(t, j) == 10 * t[j].power * Count(t, t[j].meter_id) > 12 * PowerSum(t, t[j].meter_id)
Group(t, i) ==
    {j \in 1..Len(t) : /\ t[j].transformer_id # NaN
                       /\ t[j].transformer_id = t[i].transformer_id
                       /\ t[j].timestamp = t[i].timestamp}
HighInGroup(t, i) == Cardinality({j \in Group(t, i) : AtHighLoad(t, j)})
GroupOverloaded(t, i) ==
    /\ t[i].transformer_id # NaN
    /\ 10 * HighInGroup(t, i) > 7 * Cardinality(Group(t, i))

-----------------------------------------------------------------------------
(* Claims *)

\* C1: every row of the table run_engine returns carries one pattern of
\* {normal, theft, fault, transformer_overload, anomaly}, and its alert
\* flag is true exactly when that final pattern is not normal.
C1_PatternAndAlert ==
    pc \in {"alerted", "sorted", "returned"} =>
        \A i \in 1..Len(df) :
            /\ df[i].pattern \in Patterns
            /\ df[i].alert \in BOOLEAN
            /\ df[i].alert <=> (df[i].pattern # "normal")

\* a returned table with a row the classifier found normal and the overload
\* pass overrode (alert true), next to a normal row (alert false)
C1_Witness ==
    /\ pc = "returned"
    /\ \E i, j \in 1..Len(df) :
        /\ df[i].pattern = "transformer_overload" /\ df[i].alert
        /\ DetectPattern(df[i], GroupedStats(df, df[i].meter_id)).pattern = "normal"
        /\ df[j].pattern = "normal" /\ ~df[j].alert

\* C2: in the final table risk_score lies in [0,1] and a row whose final
\* pattern is normal has risk_score 0.0.
C2_RiskRange ==
    pc \in {"analyzed", "alerted", "sorted", "returned"} =>
        \A i \in 1..Len(df) :
            /\ 0 <= df[i].risk_score /\ df[i].risk_score <= 100
            /\ df[i].pattern = "normal" => df[i].risk_score = 0

\* a final table, past an aggregator pass over a transformer_id column,
\* holding a normal row at 0.0 and a row at the highest risk, 0.9
C2_Witness ==
    /\ pc = "returned" /\ has_tid
    /\ \E i, j \in 1..Len(df) :
        /\ df[i].pattern = "normal" /\ df[i].risk_score = 0
        /\ df[j].pattern = "theft" /\ df[j].risk_score = 90

\* C3: a row with the electrical signature of rule 1 is classified theft,
\* with risk 0.9 if flagged and 0.6 otherwise, also when it satisfies the
\* power-spike condition; it is never classified fault.
C3_Rule1First ==
    (pc = "detected" /\ ElectricalSignature(row, grouped_stats)) =>
        /\ result.pattern = "theft"
        /\ result.risk_score = (IF Flagged(row) THEN 90 ELSE 60)
        /\ result.explanation.kind = "Voltage drop"

\* a row matching rule 1 and the power-spike condition, classified theft
C3_Witness ==
    /\ pc = "detected"
    /\ ElectricalSignature(row, grouped_stats)
    /\ PowerSpike(row, grouped_stats)
    /\ Flagged(row)
    /\ result.pattern = "theft" /\ result.risk_score = 90

\* C4: check_transformer_overload forces a reading to transformer_overload
\* with risk 0.85 exactly when more than 0.7 of the readings of its
\* (transformer_id, timestamp) group are at high load, whatever the
\* classifier assigned; a share of exactly 0.7 leaves the readings as they were.
C4_OverloadOverride ==
    (pc = "once" /\ has_tid) =>
        \A i \in 1..Len(data) :
            IF GroupOverloaded(data, i)
            THEN /\ df[i].pattern = "transformer_overload"
                 /\ df[i].risk_score = 85
                 /\ df[i].explanation.kind = "Transformer overload"
            ELSE df[i] = data[i]

\* one table with a group of ten readings of which exactly seven are at
\* high load, left alone, and an overloaded group with a theft at 0.9 overridden
C4_Witness ==
    /\ pc = "once" /\ has_tid
    /\ \E i, j \in 1..Len(data) :
        /\ Cardinality(Group(data, i)) = 10 /\ HighInGroup(data, i) = 7
        /\ data[i].pattern = "theft" /\ df[i] = data[i]
        /\ GroupOverloaded(data, j)
        /\ data[j].pattern = "theft" /\ data[j].risk_score = 90
        /\ df[j].pattern = "transformer_overload" /\ df[j].risk_score = 85

\* C5: the table run_engine returns is a permutation of the rows of
\* analyze_patterns, ordered by risk_score non-increasing, rows of equal
\* risk_score in the order they had before the sort.
C5_StableSort ==
    [][(pc = "alerted" /\ pc' = "sorted") =>
        /\ Len(df') = Len(df)
        /\ Range(df') = Range(df)
        /\ \A i, j \in 1..Len(df') : i < j =>
            /\ df'[i].risk_score >= df'[j].risk_score
            /\ df'[i].risk_score = df'[j].risk_score => df'[i].index < df'[j].index]_vars

\* C6: in a run without a model every row has the default verdict (normal,
\* 0.0), the classifier's risks are the non-flagged ones, 0.6, 0.4, 0.5
\* (consumption suppression) or 0.0, and no row gets the pattern anomaly.
NoModelRun == model = "None" /\ model_src \in {"none", "missing"}
C6_NoModelDefaults ==
    /\ (NoModelRun /\ pc \in {"scored", "classified"}) =>
        \A i \in 1..Len(df) : df[i].prediction = 1 /\ df[i].anomaly_score = 0
    /\ (NoModelRun /\ pc = "classified") =>
        \A i \in 1..Len(df) :
            /\ df[i].risk_score \in {60, 40, 50, 0}
            /\ df[i].risk_score = 60 <=> ElectricalSignature(df[i], GroupedStats(df, df[i].meter_id))
            /\ df[i].risk_score = 50 => df[i].explanation.kind = "Consumption"
    /\ (NoModelRun /\ pc \in {"classified", "analyzed", "alerted", "sorted", "returned"}) =>
        \A i \in 1..Len(df) : df[i].pattern # "anomaly"

\* a classified table of a run without a model with the risks 0.6, 0.4, 0.5 and 0.0
C6_Witness ==
    /\ NoModelRun /\ pc = "classified"
    /\ {df[i].risk_score : i \in 1..Len(df)} = {60, 40, 50, 0}

\* C7: check_transformer_overload applied to its own output returns it
\* unchanged: pattern, risk_score and explanation of every row.
C7_Idempotent ==
    [][(pc = "once" /\ pc' = "twice") => df' = df]_vars

\* a table past the second pass in which the first pass overrode a row
C7_Witness ==
    /\ pc = "twice" /\ has_tid
    /\ \E i \in 1..Len(df) : df[i] # data[i] /\ df[i].pattern = "transformer_overload"
    /\ \E i \in 1..Len(df) : df[i] = data[i] /\ df[i].pattern = "theft"

\* C8: a row rule 1 does not match is classified fault, with risk 0.7 if
\* flagged and 0.4 otherwise, exactly when |z| > 3.0 with the standard
\* deviation floored to 0.001, also when its power is below half its
\* rolling average; no standard deviation causes a division error.
C8_Rule2 ==
    (pc = "detected" /\ ~ElectricalSignature(row, grouped_stats)) =>
        /\ result.pattern = "fault" <=> PowerSpike(row, grouped_stats)
        /\ result.pattern = "fault" =>
            /\ result.risk_score = (IF Flagged(row) THEN 70 ELSE 40)
            /\ result.explanation.kind = "Power spike detected"
        /\ result.pattern \in Patterns

\* a row of a meter whose standard deviation is below 0.001, with a power
\* spike and a power below half its rolling average, classified fault
C8_Witness ==
    /\ pc = "detected"
    /\ ~ElectricalSignature(row, grouped_stats)
    /\ ~grouped_stats.power_std.nan
    /\ grouped_stats.power_std.sq[1] < grouped_stats.power_std.sq[2]
    /\ Suppression(row)
    /\ result.pattern = "fault" /\ result.risk_score = 40

\* C9: a row neither rule 1 nor rule 2 matches is classified theft, with
\* risk 0.8 if flagged and 0.5 otherwise, exactly when power /
\* max(rolling_avg_power, 0.001) < 0.5; a rolling average of zero causes no
\* division error.
C9_Rule3 ==
    (/\ pc = "detected"
     /\ ~ElectricalSignature(row, grouped_stats)
     /\ ~PowerSpike(row, grouped_stats)) =>
        /\ result.pattern = "theft" <=> Suppression(row)
        /\ result.pattern = "theft" =>
            /\ result.risk_score = (IF Flagged(row) THEN 80 ELSE 50)
            /\ result.explanation.kind = "Consumption"
        /\ result.pattern \in Patterns

\* a flagged row with a rolling average of zero and no power, classified theft at 0.8
C9_Witness ==
    /\ pc = "detected"
    /\ ~ElectricalSignature(row, grouped_stats)
    /\ ~PowerSpike(row, grouped_stats)
    /\ "rolling_avg_power" \in row.cols /\ row.rolling_avg_power = 0
    /\ Flagged(row)
    /\ result.pattern = "theft" /\ result.risk_score = 80

\* C10 as stated: a row that none of rules 1, 2 and 3 matches is classified
\* anomaly at 0.5 if flagged and normal at 0.0 otherwise, and in a run
\* without a model it ends as normal, 0.0, alert False.
NoRule(t, i) ==
    LET st == GroupedStats(t, t[i].meter_id)
    IN  ~Suppression(t[i]) /\ ~ElectricalSignature(t[i], st) /\ ~PowerSpike(t[i], st)
Rule4Or5(t, i) ==
    IF Flagged(t[i])
    THEN t[i].pattern = "anomaly" /\ t[i].risk_score = 50
    ELSE t[i].pattern = "normal" /\ t[i].risk_score = 0
C10_NoRuleEndsNormal ==
    /\ pc = "classified" => \A i \in 1..Len(df) : NoRule(df, i) => Rule4Or5(df, i)
    /\ (pc = "returned" /\ NoModelRun) =>
        \A i \in 1..Len(df) : NoRule(df, i) =>
            df[i].pattern = "normal" /\ df[i].risk_score = 0 /\ ~df[i].alert

\* C10 amended: ... and in a run without a model it ends as normal, 0.0,
\* alert False unless the overload pass overrides its (transformer,
\* timestamp) group, and then as transformer_overload, 0.85, alert True.
C10_NoRuleEndsNormalUnlessOverloaded ==
    /\ pc = "classified" => \A i \in 1..Len(df) : NoRule(df, i) => Rule4Or5(df, i)
    /\ (pc = "returned" /\ NoModelRun) =>
        \A i \in 1..Len(df) : NoRule(df, i) =>
            IF df[i].pattern = "normal"
            THEN df[i].risk_score = 0 /\ ~df[i].alert /\ ~(has_tid /\ GroupOverloaded(df, i))
            ELSE /\ df[i].pattern = "transformer_overload" /\ df[i].risk_score = 85
                 /\ df[i].alert /\ has_tid /\ GroupOverloaded(df, i)

\* a returned table of a run without a model on a table with a
\* transformer_id column, with a row no rule matches that ends normal
C10_Witness ==
    /\ pc = "returned" /\ NoModelRun /\ has_tid
    /\ \E i \in 1..Len(df) :
        /\ NoRule(df, i) /\ df[i].transformer_id # NaN
        /\ df[i].pattern = "normal" /\ df[i].risk_score = 0 /\ ~df[i].alert

-----------------------------------------------------------------------------
\* C11: check_transformer_overload leaves pattern, risk_score and
\* explanation of every row that has no transformer_id exactly as they were
\* on entry, and when the table has no transformer_id column it returns the
\* whole table unchanged.
C11_NoTransformerUntouched ==
    pc \in {"once", "twice"} =>
        /\ Len(df) = Len(data)
        /\ \A i \in 1..Len(data) :
              data[i].transformer_id = NaN =>
                  /\ df[i].pattern = data[i].pattern
                  /\ df[i].risk_score = data[i].risk_score
                  /\ df[i].explanation = data[i].explanation
        /\ ~has_tid => df = data

\* one call on a table with the column: a meter without transformer_id is at
\* high load at a timestamp at which the transformer's group is overridden
C11_Witness ==
    /\ pc = "once" /\ has_tid
    /\ \E i, j \in 1..Len(data) :
        /\ data[i].transformer_id = NaN /\ HighLoad(data, i)
        /\ data[j].timestamp = data[i].timestamp
        /\ data[j].pattern # "transformer_overload"
        /\ df[j].pattern = "transformer_overload"
        /\ df[i] = data[i]

-----------------------------------------------------------------------------
\* the steps of run_engine after the model has been settled
AfterLoadModel == {"model_ready", "scored", "classified", "analyzed",
                   "alerted", "sorted", "returned"}
\* the steps at which the table has its prediction and anomaly_score columns
AfterPredict == AfterLoadModel \ {"model_ready"}
\* a batch read_csv reads and whose meters are all in the baseline index
SoundBatch == data # Unreadable /\ \A i \in 1..Len(data) : data[i].meter_id # NaN

\* C12: run_engine runs without a model exactly when model_path is None or
\* names a path that does not exist, and such a run does not fail for its
\* model and has every prediction 1 and every anomaly_score 0.0; when the
\* path exists but the artifact cannot be loaded the run stops with the
\* error: it gets past no later step, builds no decision table and writes
\* nothing.
C12_DegradeOnlyWhenAbsent ==
    /\ pc \in AfterLoadModel =>
          (model = "None" <=> model_src \in {"none", "missing"})
    /\ (model_src \in {"none", "missing"} /\ pc \in AfterPredict) =>
          \A i \in 1..Len(df) :
              df[i].prediction = 1 /\ df[i].anomaly_score = 0
    /\ (model_src \in {"none", "missing"} /\ SoundBatch) => pc # "error"
    /\ model_src = "corrupt" =>
          /\ pc \in {"start", "processed", "error"}
          /\ df \in {<<>>, data}
          /\ out_file = <<>>

\* a run given a model_path that does not exist has returned its table
C12_Witness ==
    /\ pc = "returned" /\ model_src = "missing" /\ model = "None"
    /\ df # <<>>
    /\ \A i \in 1..Len(df) : df[i].prediction = 1 /\ df[i].anomaly_score = 0

-----------------------------------------------------------------------------
\* C13: nothing is stored at output_path unless run_engine has got past
\* every step (so a run that fails in load_data, preprocess, load_model,
\* the classification or the overload pass leaves nothing there), and what
\* is stored is the returned table: one row per reading, with its verdict
\* and its alert column, in non-increasing order of risk_score.
C13_WriteOnlyWhenComplete ==
    /\ pc # "returned" => out_file = <<>>
    /\ out_file # <<>> =>
          /\ out_file = df
          /\ Len(out_file) = Len(data)
          /\ \A i \in 1..Len(out_file) :
                /\ {"pattern", "risk_score", "explanation", "alert"}
                      \subseteq DOMAIN out_file[i]
                /\ out_file[i].alert = (out_file[i].pattern # "normal")
          /\ \A i, j \in 1..Len(out_file) :
                i < j => out_file[i].risk_score >= out_file[j].risk_score

\* a run has failed in the classification, after the first reading of the
\* batch could have been classified, and nothing is stored
C13_Witness ==
    /\ pc = "error" /\ data = OrphanBatch
    /\ df # <<>> /\ "prediction" \in DOMAIN df[1]
    /\ out_file = <<>>

-----------------------------------------------------------------------------
\* the steps of run_engine before the verdicts exist, and the failed run
BeforeVerdicts == {"start", "processed", "model_ready", "scored", "error"}
HasMeans(st) ==
    st.voltage_mean[2] > 0 /\ st.current_mean[2] > 0 /\ st.power_mean[2] > 0
HasStds(st) == ~st.voltage_std.nan /\ ~st.current_std.nan /\ ~st.power_std.nan
NoStds(st) == st.voltage_std.nan /\ st.current_std.nan /\ st.power_std.nan
\* a reading of the batch whose meter_id is not in the baseline index
OrphanReading == \E i \in 1..Len(data) : data[i].meter_id \notin BaselineIndex(data)
\* detect_pattern fails on the orphan reading: the run stops without verdicts
FailsOnOrphan ==
    OrphanReading =>
        /\ pc \in BeforeVerdicts
        /\ \A i \in 1..Len(df) : "pattern" \notin DOMAIN df[i]
        /\ out_file = <<>>

\* C14: the statistics built from the table analyze_patterns classifies
\* have, for every meter_id of the table, a mean and a standard deviation
\* (a number) of voltage, current and power, a meter with a single reading
\* included; and a run with a reading whose meter_id is not in the baseline
\* index fails in detect_pattern, no verdict being given to any reading.
C14_MeanAndStdForEveryMeter ==
    /\ pc = "scored" =>
          \A m \in BaselineIndex(df) :
              HasMeans(GroupedStats(df, m)) /\ HasStds(GroupedStats(df, m))
    /\ pc = "scored" =>
          \A i \in 1..Len(df) :
              df[i].meter_id # NaN => df[i].meter_id \in BaselineIndex(df)
    /\ FailsOnOrphan

\* C14 amended: ... a mean of voltage, current and power for every
\* meter_id of the table, and a standard deviation of each that is a number
\* when the meter has at least two readings and NaN when it has a single
\* reading; and a run with a reading whose meter_id is not in the baseline
\* index fails in detect_pattern, no verdict being given to any reading.
C14_MeanAndStdUnlessSingleReading ==
    /\ pc = "scored" =>
          \A m \in BaselineIndex(df) :
              /\ HasMeans(GroupedStats(df, m))
              /\ IF Len(OfMeter(df, m)) >= 2
                 THEN HasStds(GroupedStats(df, m))
                 ELSE NoStds(GroupedStats(df, m))
    /\ pc = "scored" =>
          \A i \in 1..Len(df) :
              df[i].meter_id # NaN => df[i].meter_id \in BaselineIndex(df)
    /\ FailsOnOrphan

\* a run has failed in detect_pattern on a reading without a baseline row,
\* in a table whose other meter has a single reading and so a NaN std
C14_Witness ==
    /\ pc = "error" /\ OrphanReading
    /\ \E i \in 1..Len(df) :
          /\ df[i].meter_id \notin BaselineIndex(df)
          /\ "prediction" \in DOMAIN df[i]
    /\ \E m \in BaselineIndex(df) :
          Len(OfMeter(df, m)) = 1 /\ NoStds(GroupedStats(df, m))

-----------------------------------------------------------------------------
(* email_service.send_alert_email as a function of config.json and of its   *)
(* argument alert_data, a dict holding any subset of the eight fields of an *)
(* alert.  A dict is a function on its keys; the text interpolated into the *)
(* message is a tuple of strings.                                           *)

\* the variables of run_engine and detect_pattern, not used by the services
EngineUnused ==
    /\ data = <<>> /\ has_tid = FALSE /\ model_src = "none"
    /\ model = "None" /\ df = <<>> /\ out_file = <<>>
    /\ row = NoRow /\ grouped_stats = NoStats
engine_vars == <<data, has_tid, model_src, model, df, out_file, row, grouped_stats>>

\* dict.get(key, default)
Get(d, k, default) == IF k \in DOMAIN d THEN d[k] ELSE default
EmptyDict == [k \in {} |-> ""]
Restrict(d, keys) == [k \in keys |-> d[k]]

AlertFields == {"meter_id", "pattern", "timestamp", "risk_score",
                "power", "voltage", "current", "explanation"}

\* an alerting row of the decision table; risk_score in hundredths, with a
\* value on each side of the badge's limits 0.5 and 0.7
AlertPatterns == {"theft", "transformer_overload"}
RiskScores == {30, 50, 60, 70, 90}
AlertRow(pattern, risk) ==
    [meter_id |-> "M1", pattern |-> pattern, timestamp |-> "2024-01-01 10:00:00",
     risk_score |-> risk, power |-> "5.2", voltage |-> "190.0", current |-> "14.0",
     explanation |-> "Voltage drop"]

\* str.upper() on the patterns and on the defaults of pattern
Upper(s) ==
    CASE s = "theft" -> "THEFT"
      [] s = "transformer_overload" -> "TRANSFORMER_OVERLOAD"
      [] s = "Anomaly" -> "ANOMALY"
      [] s = "N/A" -> "N/A"

\* f"{risk_score:.2f}"
Format2(risk) ==
    CASE risk = 0 -> "0.00" [] risk = 30 -> "0.30" [] risk = 50 -> "0.50"
      [] risk = 60 -> "0.60" [] risk = 70 -> "0.70" [] risk = 90 -> "0.90"

get_risk_badge(risk_score) ==
    IF risk_score >= 70 THEN <<"risk-high", "HIGH", Format2(risk_score)>>
    ELSE IF risk_score >= 50 THEN <<"risk-medium", "MEDIUM", Format2(risk_score)>>
    ELSE <<"risk-low", "LOW", Format2(risk_score)>>

\* datetime.now().strftime(...), the default of timestamp
Now == "now"

\* msg["Subject"], after "CRITICAL ALERT - "
Subject(d) == Upper(Get(d, "pattern", "Anomaly"))

\* what the html template shows for each field
Html(d) ==
    [f \in AlertFields |->
        CASE f = "pattern" -> <<Upper(Get(d, "pattern", "N/A"))>>
          [] f = "timestamp" -> <<Get(d, "timestamp", Now)>>
          [] f = "risk_score" -> get_risk_badge(Get(d, "risk_score", 0))
          [] f = "explanation" -> <<Get(d, "explanation", "AI detected anomaly")>>
          [] OTHER -> <<Get(d, f, "N/A")>>]

NoMsg == [built |-> FALSE, subject |-> "", html |-> [f \in AlertFields |-> <<>>]]
Message(d) == [built |-> TRUE, subject |-> Subject(d), html |-> Html(d)]

\* config.json: absent, not parseable as JSON, or an object whose "email"
\* entry is the dict `email` (the empty dict when there is no such entry)
EmailSection(enabled, sender_email) ==
    [enabled |-> enabled, sender_email |-> sender_email,
     sender_password |-> "secret", smtp_server |-> "smtp.gmail.com",
     smtp_port |-> "587", use_tls |-> TRUE]
EmailSections ==
    {EmptyDict} \cup
    UNION { { EmailSection(e, s),
              Restrict(EmailSection(e, s), {"enabled", "sender_email"}) } :
            e \in BOOLEAN, s \in {"", "grid@example.org"} }
ConfigFiles ==
    { [file |-> "absent", email |-> EmptyDict],
      [file |-> "invalid", email |-> EmptyDict] }
    \cup { [file |-> "ok", email |-> e] : e \in EmailSections }

\* load_email_config on a file that json.load can parse, or on no file
load_email_config(c) ==
    IF c.file = "ok" THEN c.email ELSE EmailSection(FALSE, "")

Returned(success, message) ==
    [raised |-> FALSE, success |-> success, message |-> message]
Raised(exception) == [raised |-> TRUE, success |-> FALSE, message |-> exception]
NoReturn == Returned(FALSE, "")

InitEmail ==
    /\ pc = "send"
    /\ config \in ConfigFiles
    /\ \E p \in AlertPatterns, r \in RiskScores, present \in SUBSET AlertFields :
          alert_data = Restrict(AlertRow(p, r), present)
    /\ msg = NoMsg /\ result = NoReturn
    /\ users = <<>> /\ call = <<>>
    /\ EngineUnused

\* send_alert_email(recipient_email, alert_data); the SMTP session succeeds
\* or raises
SendAlertEmail ==
    /\ pc = "send"
    /\ pc' = "sent"
    /\ IF config.file = "invalid"
       THEN msg' = msg /\ result' = Raised("JSONDecodeError")
       ELSE LET cfg == load_email_config(config)
            IN  IF ~Get(cfg, "enabled", FALSE) \/ Get(cfg, "sender_email", "") = ""
                THEN /\ msg' = msg
                     /\ result' = Returned(FALSE, "Email notifications are not configured")
                ELSE /\ msg' = Message(alert_data)
                     /\ IF "smtp_server" \notin DOMAIN cfg
                        THEN result' = Returned(FALSE, "Failed to send email")
                        ELSE \E smtp_ok \in BOOLEAN :
                                result' = IF smtp_ok
                                          THEN Returned(TRUE, "Alert email sent")
                                          ELSE Returned(FALSE, "Failed to send email")
    /\ UNCHANGED <<engine_vars, config, alert_data, users, call>>

NextEmail == SendAlertEmail

SpecEmail == InitEmail /\ [][NextEmail]_vars

-----------------------------------------------------------------------------
\* what stands in the message for a field that alert_data does not hold
Placeholder(f) ==
    CASE f = "timestamp" -> <<Now>>
      [] f = "risk_score" -> <<"risk-low", "LOW", "0.00">>
      [] f = "explanation" -> <<"AI detected anomaly">>
      [] OTHER -> <<"N/A">>
Configured ==
    /\ config.file = "ok"
    /\ "enabled" \in DOMAIN config.email /\ config.email["enabled"]
    /\ "sender_email" \in DOMAIN config.email /\ config.email["sender_email"] # ""

\* C16: whichever of the eight fields alert_data lacks, send_alert_email
\* does not raise to its caller but returns a (success, message) pair, and
\* the message it builds (it builds one whenever notifications are
\* configured) has the placeholder of every missing field and the value of
\* every field that is there.
C16_AbsentFieldsNeverFail ==
    pc = "sent" =>
        /\ ~result.raised
        /\ Configured => msg.built
        /\ msg.built =>
              /\ msg.subject = (IF "pattern" \in DOMAIN alert_data
                                THEN Upper(alert_data["pattern"]) ELSE "ANOMALY")
              /\ \A f \in AlertFields \ DOMAIN alert_data :
                    msg.html[f] = Placeholder(f)
              /\ \A f \in DOMAIN alert_data \ {"pattern", "risk_score"} :
                    msg.html[f] = <<alert_data[f]>>

-----------------------------------------------------------------------------
(* auth: the credential store at USERS_FILE and the operations that load   *)
(* it, change it and save it.  The store is a dict from username to the    *)
(* user's record; every operation reads the file and, when it succeeds,    *)
(* writes the changed dict back.                                           *)

Usernames == {"admin", "operator"}
Passwords == {"admin123", "operator123", "abc"}

\* len(password)
PasswordLength(password) ==
    CASE password = "admin123" -> 8
      [] password = "operator123" -> 11
      [] password = "abc" -> 3
MinPasswordLength == 6

\* hashlib.sha256(password.encode()).hexdigest(): a digest, distinct for the
\* distinct passwords used here
hash_password(password) == <<"sha256", password>>

User(password, role, name, email, alerts_enabled) ==
    [password |-> hash_password(password), role |-> role, name |-> name,
     email |-> email, alerts_enabled |-> alerts_enabled]

\* create_default_users: the users admin and operator of the default store
DefaultUsers ==
    [u \in Usernames |->
        IF u = "admin"
        THEN User("admin123", "admin", "Administrator", "admin@smartgrid.local", TRUE)
        ELSE User("operator123", "operator", "Grid Operator", "operator@smartgrid.local", TRUE)]

\* the dict d with the entry of key k set to v, and without its key k
SetItem(d, k, v) == [x \in DOMAIN d \cup {k} |-> IF x = k THEN v ELSE d[x]]
DelItem(d, k) == [x \in DOMAIN d \ {k} |-> d[x]]

valid_roles == {"admin", "operator", "viewer"}
\* roles and email addresses the callers pass
RoleArgs == {"admin", "viewer", "root"}
EmailArgs == {"", "nobody", "new@grid.org"}
\* "@" in email
HasAt(email) == email = "new@grid.org"

Outcome(store, success, message) ==
    [users |-> store, result |-> Returned(success, message)]

register_user(store, username, password, name, role, email) ==
    IF username \in DOMAIN store
    THEN Outcome(store, FALSE, "Username already exists")
    ELSE IF PasswordLength(password) < MinPasswordLength
    THEN Outcome(store, FALSE, "Password must be at least 6 characters")
    ELSE Outcome(SetItem(store, username, User(password, role, name, email, TRUE)),
                 TRUE, "User created successfully")

change_password(store, username, old_password, new_password) ==
    IF username \notin DOMAIN store
    THEN Outcome(store, FALSE, "User not found")
    ELSE IF store[username].password # hash_password(old_password)
    THEN Outcome(store, FALSE, "Old password is incorrect")
    ELSE IF PasswordLength(new_password) < MinPasswordLength
    THEN Outcome(store, FALSE, "New password must be at least 6 characters")
    ELSE Outcome([store EXCEPT ![username].password = hash_password(new_password)],
                 TRUE, "Password changed successfully")

NoProtectedUser(username) == FALSE
ProtectedUser(username) == username = "admin"

delete_user(store, username) ==
    IF username \notin DOMAIN store
    THEN Outcome(store, FALSE, "User not found")
    ELSE IF ProtectedUser(username)
    THEN Outcome(store, FALSE, "Cannot delete admin user")
    ELSE Outcome(DelItem(store, username), TRUE, "User deleted successfully")

update_user_role(store, username, new_role) ==
    IF username \notin DOMAIN store
    THEN Outcome(store, FALSE, "User not found")
    ELSE IF new_role \notin valid_roles
    THEN Outcome(store, FALSE, "Invalid role")
    ELSE Outcome([store EXCEPT ![username].role = new_role], TRUE, "Role updated")

update_user_email(store, username, email) ==
    IF username \notin DOMAIN store
    THEN Outcome(store, FALSE, "User not found")
    ELSE IF email = "" \/ ~HasAt(email)
    THEN Outcome(store, FALSE, "Invalid email address")
    ELSE Outcome([store EXCEPT ![username].email = email], TRUE, "Email updated")

toggle_user_alerts(store, username) ==
    IF username \notin DOMAIN store
    THEN Outcome(store, FALSE, "User not found")
    ELSE Outcome([store EXCEPT ![username].alerts_enabled = ~store[username].alerts_enabled],
                 TRUE, "Alerts toggled")

Call(op, username, args) == [op |-> op, username |-> username, args |-> args]
NoCall == Call("", "", <<>>)

\* a store that contains admin: the default store, with or without operator
InitAuth ==
    /\ pc = "auth"
    /\ users \in {DefaultUsers, DelItem(DefaultUsers, "operator")}
    /\ call = NoCall /\ result = NoReturn
    /\ config = <<>> /\ alert_data = <<>> /\ msg = <<>>
    /\ EngineUnused

\* the call c returns, having saved the store it returns with
Returns(c, outcome) ==
    /\ pc = "auth"
    /\ call' = c
    /\ users' = outcome.users
    /\ result' = outcome.result
    /\ UNCHANGED <<pc, engine_vars, config, alert_data, msg>>

RegisterUser ==
    \E u \in Usernames, p \in Passwords, role \in {"viewer", "root"} :
        Returns(Call("register_user", u, <<p, "New User", role, "">>),
                register_user(users, u, p, "New User", role, ""))

ChangePassword ==
    \E u \in Usernames, old \in Passwords, new \in Passwords :
        Returns(Call("change_password", u, <<old, new>>),
                change_password(users, u, old, new))

DeleteUser ==
    \E u \in Usernames :
        Returns(Call("delete_user", u, <<>>), delete_user(users, u))

UpdateUserRole ==
    \E u \in Usernames, role \in RoleArgs :
        Returns(Call("update_user_role", u, <<role>>), update_user_role(users, u, role))

UpdateUserEmail ==
    \E u \in Usernames, email \in EmailArgs :
        Returns(Call("update_user_email", u, <<email>>), update_user_email(users, u, email))

ToggleUserAlerts ==
    \E u \in Usernames :
        Returns(Call("toggle_user_alerts", u, <<>>), toggle_user_alerts(users, u))

NextAuth ==
    \/ RegisterUser \/ ChangePassword \/ DeleteUser
    \/ UpdateUserRole \/ UpdateUserEmail \/ ToggleUserAlerts

SpecAuth == InitAuth /\ [][NextAuth]_vars

-----------------------------------------------------------------------------
\* C17: from a store that contains admin, every call of register_user,
\* delete_user, change_password, update_user_role, update_user_email and
\* toggle_user_alerts leaves admin in the store; delete_user("admin")
\* returns failure; and a call that returns failure leaves the store as it
\* was.
C17_AdminStays ==
    [][ /\ "admin" \in DOMAIN users'
        /\ (call'.op = "delete_user" /\ call'.username = "admin") => ~result'.success
        /\ ~result'.success => users' = users ]_vars

\* delete_user("admin") has just been refused, on a store from which
\* operator has been deleted and in which admin's record has been changed
C17_Witness ==
    /\ call = Call("delete_user", "admin", <<>>)
    /\ ~result.success
    /\ DOMAIN users = {"admin"}
    /\ users["admin"] # DefaultUsers["admin"]

=============================================================================
